---- MODULE Spec2Model ----
(***************************************************************************)
(* kc: the keyfile data model of src/utils/keyfiles.py.                    *)
(*                                                                         *)
(* A string is a sequence of one-character tokens ("x", "/", "."); the     *)
(* tokens "enc", "pub", "k", "h", "d", "e" stand for dot-free,             *)
(* separator-free runs of characters.  A path is the sequence of its       *)
(* parts after the root, as pathlib keeps them; every path of the model    *)
(* is absolute.  The filesystem maps resolved paths to nodes.              *)
(***************************************************************************)
EXTENDS Integers, Sequences, FiniteSets, TLC

VARIABLES
    fs,                    \* the disk: resolved path -> node
    encrypted_file_bytes,  \* SecretKeyFile instance (by path) -> memoized container
    pass_file,             \* the PasswdFile instance the caller holds, if any
    last                   \* the last call: operation, arguments and outcome

vars == <<fs, encrypted_file_bytes, pass_file, last>>

(***************************** bounds **************************************)
MaxNameLen == 3     \* longest service name drawn over Alphabet
NumSalts == 2       \* random salts the password-derived box draws from

Alphabet == {"x", "/", "."}
Keys == {"alice", "bob"}                 \* keypairs
Passwds == {"hunter2", "swordfish"}      \* service passwords
MasterPasswds == {"M0Ms", "other"}       \* master passwords
Salts == 1..NumSalts

(***************************** strings and paths ***************************)
Sep == "/"
Dot == "."
DotDot == <<".", ".">>

PASSWD_FILE_EXT == <<".", "enc">>
SECKEY_FILE_EXT == <<".", "enc">>
PUBKEY_FILE_EXT == <<".", "pub">>

\* str.split("/"): the segments between separators, empty ones included
RECURSIVE Split(_)
Split(s) ==
    IF s = <<>> THEN << <<>> >>
    ELSE LET r == Split(Tail(s)) IN
         IF Head(s) = Sep THEN << <<>> >> \o r
         ELSE << <<Head(s)>> \o Head(r) >> \o Tail(r)

\* pathlib drops empty segments and "." segments and keeps ".." segments
RECURSIVE DropEmpty(_)
DropEmpty(segs) ==
    IF segs = <<>> THEN <<>>
    ELSE IF Head(segs) = <<>> \/ Head(segs) = <<Dot>> THEN DropEmpty(Tail(segs))
    ELSE <<Head(segs)>> \o DropEmpty(Tail(segs))

\* pathlib's parse of one string argument: is it rooted, and its parts
ParseParts(s) ==
    [rooted |-> s # <<>> /\ Head(s) = Sep, parts |-> DropEmpty(Split(s))]

\* Path.__truediv__: a rooted right operand replaces the left one
JoinPath(base, s) ==
    LET p == ParseParts(s) IN
    IF p.rooted THEN p.parts ELSE base \o p.parts

Parent(path) == IF path = <<>> THEN <<>> ELSE SubSeq(path, 1, Len(path) - 1)
Name(path) == IF path = <<>> THEN <<>> ELSE path[Len(path)]

\* str.rfind("."), 1-based, 0 when there is none
RFindDot(name) ==
    LET at == {i \in 1..Len(name) : name[i] = Dot} IN
    IF at = {} THEN 0 ELSE CHOOSE i \in at : \A j \in at : j <= i

\* PurePath.suffix: from the last dot, unless the dot leads or ends the name
Suffix(path) ==
    LET name == Name(path)
        i == RFindDot(name)
    IN IF 1 < i /\ i < Len(name) THEN SubSeq(name, i, Len(name)) ELSE <<>>

\* PurePath.stem
Stem(path) ==
    LET name == Name(path)
        i == RFindDot(name)
    IN IF 1 < i /\ i < Len(name) THEN SubSeq(name, 1, i - 1) ELSE name

\* PurePath.with_suffix("")
WithoutSuffix(path) == IF path = <<>> THEN <<>> ELSE Append(Parent(path), Stem(path))

(***************************** the filesystem ******************************)
Dir == [kind |-> "dir"]
FileNode(data) == [kind |-> "file", data |-> data]
Symlink(target) == [kind |-> "symlink", target |-> target]

Root == <<>>
Home == << <<"h">> >>

\* the kernel's walk of an absolute path from a directory that exists: ".."
\* steps to the parent, any other part before the last must be a directory
RECURSIVE Walk(_, _, _)
Walk(f, cur, rest) ==
    IF rest = <<>> THEN [ok |-> TRUE, at |-> cur]
    ELSE IF Head(rest) = DotDot THEN Walk(f, Parent(cur), Tail(rest))
    ELSE IF Len(rest) = 1 THEN [ok |-> TRUE, at |-> Append(cur, Head(rest))]
    ELSE IF Append(cur, Head(rest)) \in DOMAIN f
            /\ f[Append(cur, Head(rest))].kind = "dir"
         THEN Walk(f, Append(cur, Head(rest)), Tail(rest))
    ELSE [ok |-> FALSE, at |-> <<>>]

Resolve(f, path) == Walk(f, Root, path)

\* Path.exists()
Exists(f, path) ==
    LET r == Resolve(f, path) IN r.ok /\ r.at \in DOMAIN f

\* open(path, "wb") followed by one write of data
OpenWrite(f, path, data) ==
    LET r == Resolve(f, path) IN
    IF ~r.ok THEN [result |-> "FileNotFoundError", fs |-> f]
    ELSE IF r.at \in DOMAIN f /\ f[r.at].kind = "dir"
         THEN [result |-> "IsADirectoryError", fs |-> f]
    ELSE [result |-> "ok",
          fs |-> [q \in DOMAIN f \cup {r.at} |->
                    IF q = r.at THEN FileNode(data) ELSE f[q]]]

\* open(path, "rb").read() of a path that exists
ReadBytes(f, path) == f[Resolve(f, path).at].data

\* Path.mkdir(exist_ok=True): parents is left False, so one level at most
Mkdir(f, path) ==
    LET r == Resolve(f, path) IN
    IF ~r.ok THEN [result |-> "FileNotFoundError", fs |-> f]
    ELSE IF r.at \in DOMAIN f
         THEN IF f[r.at].kind = "dir" THEN [result |-> "ok", fs |-> f]
              ELSE [result |-> "FileExistsError", fs |-> f]
    ELSE [result |-> "ok",
          fs |-> [q \in DOMAIN f \cup {r.at} |-> IF q = r.at THEN Dir ELSE f[q]]]

(***************************** keys and boxes ******************************)
PublicKeyOf(k) == [kind |-> "PublicKey", k |-> k]
PrivateKeyOf(k) == [kind |-> "PrivateKey", k |-> k]

\* Key.encode(): the raw key bytes
EncodeKey(key) == [b |-> key.kind, k |-> key.k]

\* PublicKey(bytes) / PrivateKey(bytes)
DecodeKey(kind, bytes) ==
    IF bytes.b = kind THEN [result |-> "ok", value |-> [kind |-> kind, k |-> bytes.k]]
    ELSE [result |-> "ValueError", value |-> [kind |-> "none"]]

\* bytes(passwd, "utf-8") and bytes.decode("utf-8")
Utf8(passwd) == [b |-> "utf8", s |-> passwd]
DecodeUtf8(bytes) == bytes.s

\* SealedBox(public_key).encrypt(plaintext)
SealedBoxEncrypt(public_key, plaintext) ==
    [b |-> "sealed", to |-> public_key.k, pt |-> plaintext]

\* SealedBox(secret_key).decrypt(ciphertext): the constructor takes a key
\* object and nothing else; decryption needs the matching private key
SealedBoxDecrypt(secret_key, ciphertext) ==
    IF secret_key.kind \notin {"PrivateKey", "PublicKey"}
    THEN [result |-> "TypeError", value |-> [kind |-> "none"]]
    ELSE IF secret_key.kind = "PrivateKey" /\ ciphertext.b = "sealed"
            /\ ciphertext.to = secret_key.k
         THEN [result |-> "ok", value |-> ciphertext.pt]
    ELSE [result |-> "CryptoError", value |-> [kind |-> "none"]]

\* KeySecretBox(master_passwd).encrypt(plaintext): a container of a fresh
\* salt and the ciphertext under the key derived from (password, salt)
SecretBoxEncrypt(master_passwd, salt, plaintext) ==
    [salt |-> salt, ct |-> [pw |-> master_passwd, salt |-> salt, pt |-> plaintext]]

\* bytes(container): salt || nonce || ciphertext
ContainerBytes(c) == [b |-> "container", salt |-> c.salt, ct |-> c.ct]

\* PassEncryptedMessage.from_bytes
FromBytes(bytes) ==
    IF bytes.b = "container"
    THEN [result |-> "ok", value |-> [salt |-> bytes.salt, ct |-> bytes.ct]]
    ELSE [result |-> "MalformedContainer", value |-> [kind |-> "none"]]

\* KeySecretBox(master_passwd).decrypt_message(container, master_passwd)
DecryptMessage(container, master_passwd) ==
    IF container.ct.pw = master_passwd /\ container.ct.salt = container.salt
    THEN [result |-> "ok", value |-> container.ct.pt]
    ELSE [result |-> "CryptoError", value |-> [kind |-> "none"]]

(***************************** the instances *******************************)
None == [kind |-> "none"]
Unset == [kind |-> "unset"]

KeyName == <<"k">>
\* key files with no, one and two missing ancestor directories at the start
PubKeyPaths ==
    { Home \o << KeyName \o PUBKEY_FILE_EXT >>,
      Home \o << <<"d">>, <<"e">>, KeyName \o PUBKEY_FILE_EXT >> }
SecKeyPaths ==
    { Home \o << <<"d">>, KeyName \o SECKEY_FILE_EXT >> }

\* store directories handed to from_service_name
Stores == { Home, Home \o << <<"d">> >> }

\* the store the password files of the filesystem runs live in
PasswdStores == { Home }

RECURSIVE SeqsUpTo(_, _)
SeqsUpTo(S, n) ==
    IF n = 0 THEN {<<>>}
    ELSE LET shorter == SeqsUpTo(S, n - 1) IN
         shorter \cup {Append(s, c) : s \in shorter, c \in S}

\* every service name over the alphabet, and the spec's own two examples
AllServiceNames ==
    SeqsUpTo(Alphabet, MaxNameLen)
        \cup { <<".", ".", "/", "x">>,
               <<"x", "/", ".", ".", "/", ".", ".", "/", "x">> }

\* the names the filesystem operations are exercised with
ServiceNames ==
    { <<>>, <<"x">>, <<".", ".", "/", "x">> }

AliasDests == { Home \o << <<"x">> >>, Home \o << <<"d">>, <<"x">> >> }

Answers == {"y", "n", "abort"}

Outcome(op, self, arg, result, value, existed, asked) ==
    [op |-> op, self |-> self, arg |-> arg, result |-> result, value |-> value,
     existed |-> existed, asked |-> asked, calls |-> 0]

Init ==
    /\ fs = [q \in {Root, Home} |-> Dir]
    /\ encrypted_file_bytes = [p \in SecKeyPaths |-> Unset]
    /\ pass_file = None
    /\ last = Outcome("init", <<>>, None, "ok", None, FALSE, FALSE)

(***************************** PasswdFile **********************************)
\* PasswdFile.__init__ on the path File.__new__ made
PasswdFileInit(path) ==
    IF Suffix(path) # PASSWD_FILE_EXT
    THEN [result |-> "InvalidFilenameErr", path |-> <<>>]
    ELSE [result |-> "ok", path |-> path]

\* from_service_name with the emptiness check dropped
from_service_name_unchecked(service_name, passwd_store_path) ==
    PasswdFileInit(JoinPath(passwd_store_path, service_name \o PASSWD_FILE_EXT))

\* PasswdFile.from_service_name
from_service_name(service_name, passwd_store_path) ==
    IF Len(service_name) = 0
    THEN [result |-> "EmptyError", path |-> <<>>]
    ELSE PasswdFileInit(JoinPath(passwd_store_path, service_name \o PASSWD_FILE_EXT))

FromServiceName(service_name, passwd_store_path) ==
    LET r == from_service_name(service_name, passwd_store_path) IN
    /\ pass_file' = IF r.result = "ok" THEN [kind |-> "PasswdFile", path |-> r.path]
                    ELSE pass_file
    /\ last' = Outcome("from_service_name", passwd_store_path, service_name,
                       r.result, r.path, FALSE, FALSE)
    /\ UNCHANGED <<fs, encrypted_file_bytes>>

\* write_passwd with the existence check dropped: a silent overwrite
write_passwd_overwriting(f, self, passwd, public_key) ==
    OpenWrite(f, self, SealedBoxEncrypt(public_key, Utf8(passwd)))

\* PasswdFile.write_passwd: [result, fs]
write_passwd(f, self, passwd, public_key) ==
    IF Exists(f, self) THEN [result |-> "PasswdFileExistsErr", fs |-> f]
    ELSE OpenWrite(f, self, SealedBoxEncrypt(public_key, Utf8(passwd)))

WritePasswd(passwd, public_key) ==
    /\ pass_file # None
    /\ LET r == write_passwd(fs, pass_file.path, passwd, public_key) IN
       /\ fs' = r.fs
       /\ last' = Outcome("write_passwd", pass_file.path, None, r.result,
                          IF r.result = "ok" THEN ReadBytes(r.fs, pass_file.path) ELSE None,
                          Exists(fs, pass_file.path), FALSE)
    /\ UNCHANGED <<encrypted_file_bytes, pass_file>>

\* PasswdFile.retrieve_passwd: [result, value, calls]; the argument goes to
\* SealedBox as it is, and no line of the method calls it
retrieve_passwd(f, self, secret_key) ==
    IF ~Exists(f, self)
    THEN [result |-> "FileNotFoundError", value |-> None, calls |-> 0]
    ELSE LET d == SealedBoxDecrypt(secret_key, ReadBytes(f, self)) IN
         IF d.result # "ok" THEN [result |-> d.result, value |-> None, calls |-> 0]
         ELSE [result |-> "ok", value |-> DecodeUtf8(d.value), calls |-> 0]

\* what a caller hands to retrieve_passwd: a private key, or a zero-argument
\* provider lambda: secret_key_file.retrieve(master)
Provider(sec, master) == [kind |-> "provider", sec |-> sec, master |-> master]
SecretKeyArgs ==
    {PrivateKeyOf(k) : k \in Keys}
        \cup {Provider(sec, m) : sec \in SecKeyPaths, m \in MasterPasswds}

RetrievePasswd(secret_key) ==
    /\ pass_file # None
    /\ LET r == retrieve_passwd(fs, pass_file.path, secret_key) IN
       last' = [Outcome("retrieve_passwd", pass_file.path, secret_key,
                        r.result, r.value, Exists(fs, pass_file.path), FALSE)
                    EXCEPT !.calls = r.calls]
    /\ UNCHANGED <<fs, encrypted_file_bytes, pass_file>>

\* pass_file.alias(dest): PasswdFile and its bases define no attribute alias
alias(f, self, destination_path) ==
    [result |-> "AttributeError", fs |-> f]

Alias(destination_path) ==
    /\ pass_file # None
    /\ LET r == alias(fs, pass_file.path, destination_path) IN
       /\ fs' = r.fs
       /\ last' = Outcome("alias", pass_file.path, destination_path,
                          r.result, None, Exists(fs, pass_file.path), FALSE)
    /\ UNCHANGED <<encrypted_file_bytes, pass_file>>

(***************************** key files ***********************************)
\* click.confirm(..., abort=True): True on yes, raises Abort otherwise
Confirm(answer) == IF answer = "y" THEN "ok" ELSE "Abort"

\* the overwrite guard with the Abort of a declined prompt swallowed
ConfirmOverwrite_swallowed(f, self, should_confirm_overwrite, answer) ==
    [asked |-> should_confirm_overwrite /\ Exists(f, self), result |-> "ok"]

\* the overwrite guard of both write methods: exit(0) on Abort
ConfirmOverwrite(f, self, should_confirm_overwrite, answer) ==
    IF should_confirm_overwrite /\ Exists(f, self)
    THEN [asked |-> TRUE,
          result |-> IF Confirm(answer) = "Abort" THEN "SystemExit" ELSE "ok"]
    ELSE [asked |-> FALSE, result |-> "ok"]

\* self.parent.mkdir(exist_ok=True); open(self, "wb").write(data)
MkdirAndWrite(f, self, data) ==
    LET mk == Mkdir(f, Parent(self)) IN
    IF mk.result # "ok" THEN mk ELSE OpenWrite(mk.fs, self, data)

\* PublicKeyFile.write: [result, fs, asked]
PublicKeyFile_write(f, self, public_key, should_confirm_overwrite, answer) ==
    LET c == ConfirmOverwrite(f, self, should_confirm_overwrite, answer) IN
    IF c.result # "ok" THEN [result |-> c.result, fs |-> f, asked |-> c.asked]
    ELSE LET w == MkdirAndWrite(f, self, EncodeKey(public_key)) IN
         [result |-> w.result, fs |-> w.fs, asked |-> c.asked]

PubWrite(self, public_key, should_confirm_overwrite, answer) ==
    LET r == PublicKeyFile_write(fs, self, public_key, should_confirm_overwrite, answer) IN
    /\ fs' = r.fs
    /\ last' = Outcome("PublicKeyFile.write", self,
                       [answer |-> answer, cached |-> FALSE], r.result,
                       IF r.result = "ok" THEN EncodeKey(public_key) ELSE None,
                       Exists(fs, self), r.asked)
    /\ UNCHANGED <<encrypted_file_bytes, pass_file>>

\* PublicKeyFile.retrieve with the existence check dropped: open() raises
PublicKeyFile_retrieve_unchecked(f, self) ==
    IF ~Exists(f, self) THEN [result |-> "FileNotFoundError", value |-> None]
    ELSE DecodeKey("PublicKey", ReadBytes(f, self))

\* PublicKeyFile.retrieve: [result, value]
PublicKeyFile_retrieve(f, self) ==
    IF ~Exists(f, self) THEN [result |-> "SystemExit", value |-> None]
    ELSE DecodeKey("PublicKey", ReadBytes(f, self))

PubRetrieve(self) ==
    /\ LET r == PublicKeyFile_retrieve(fs, self) IN
       last' = Outcome("PublicKeyFile.retrieve", self, None, r.result, r.value,
                       Exists(fs, self), FALSE)
    /\ UNCHANGED <<fs, encrypted_file_bytes, pass_file>>

\* the cached_property SecretKeyFile.encrypted_file_bytes, read on an
\* instance whose memo is cached: [result, value, cache]; a raising getter
\* stores nothing
GetEncryptedFileBytes(f, cached, self) ==
    IF cached # Unset THEN [result |-> "ok", value |-> cached, cache |-> cached]
    ELSE IF ~Exists(f, self)
         THEN [result |-> "SystemExit", value |-> None, cache |-> cached]
    ELSE LET c == FromBytes(ReadBytes(f, self)) IN
         IF c.result # "ok" THEN [result |-> c.result, value |-> None, cache |-> cached]
         ELSE [result |-> "ok", value |-> c.value, cache |-> c.value]

\* the rewrite with the del left out: the memo survives
InvalidateCache_kept(f, cached, self) ==
    LET g == GetEncryptedFileBytes(f, cached, self) IN
    [result |-> g.result, cache |-> g.cache]

\* if hasattr(self, "encrypted_file_bytes"): del self.encrypted_file_bytes
\* hasattr runs the getter; del drops the memo from the instance
InvalidateCache(f, cached, self) ==
    LET g == GetEncryptedFileBytes(f, cached, self) IN
    IF g.result # "ok" THEN [result |-> g.result, cache |-> g.cache]
    ELSE [result |-> "ok", cache |-> Unset]

\* SecretKeyFile.write_encrypted: [result, fs, cache, asked]
write_encrypted(f, cached, self, secret_key, master_passwd, should_confirm_overwrite, answer, salt) ==
    LET c == ConfirmOverwrite(f, self, should_confirm_overwrite, answer) IN
    IF c.result # "ok"
    THEN [result |-> c.result, fs |-> f, cache |-> cached, asked |-> c.asked]
    ELSE LET box == SecretBoxEncrypt(master_passwd, salt, EncodeKey(secret_key))
             w == MkdirAndWrite(f, self, ContainerBytes(box))
         IN IF w.result # "ok"
            THEN [result |-> w.result, fs |-> w.fs, cache |-> cached, asked |-> c.asked]
            ELSE LET i == InvalidateCache(w.fs, cached, self) IN
                 [result |-> i.result, fs |-> w.fs, cache |-> i.cache, asked |-> c.asked]

SecWriteEncrypted(self, secret_key, master_passwd, should_confirm_overwrite, answer, salt) ==
    LET r == write_encrypted(fs, encrypted_file_bytes[self], self, secret_key,
                             master_passwd, should_confirm_overwrite, answer, salt) IN
    /\ fs' = r.fs
    /\ encrypted_file_bytes' = [encrypted_file_bytes EXCEPT ![self] = r.cache]
    /\ last' = Outcome("write_encrypted", self,
                       [answer |-> answer, cached |-> encrypted_file_bytes[self] # Unset],
                       r.result,
                       IF r.result = "ok"
                       THEN ContainerBytes(SecretBoxEncrypt(master_passwd, salt,
                                                            EncodeKey(secret_key)))
                       ELSE None,
                       Exists(fs, self), r.asked)
    /\ UNCHANGED pass_file

\* SecretKeyFile.retrieve: [result, value, cache]
SecretKeyFile_retrieve(f, cached, self, master_passwd) ==
    LET g == GetEncryptedFileBytes(f, cached, self) IN
    IF g.result # "ok" THEN g
    ELSE LET d == DecryptMessage(g.value, master_passwd) IN
         IF d.result # "ok" THEN [result |-> d.result, value |-> None, cache |-> g.cache]
         ELSE LET k == DecodeKey("PrivateKey", d.value) IN
              [result |-> k.result, value |-> k.value, cache |-> g.cache]

SecRetrieve(self, master_passwd) ==
    LET r == SecretKeyFile_retrieve(fs, encrypted_file_bytes[self], self, master_passwd) IN
    /\ encrypted_file_bytes' = [encrypted_file_bytes EXCEPT ![self] = r.cache]
    /\ last' = Outcome("SecretKeyFile.retrieve", self, master_passwd,
                       r.result, r.value, Exists(fs, self), FALSE)
    /\ UNCHANGED <<fs, pass_file>>

(***************************** specifications ******************************)
\* the confirmation collaborator answers only when it is consulted
AnswersAt(self, should_confirm_overwrite) ==
    IF should_confirm_overwrite /\ Exists(fs, self) THEN Answers ELSE {"unasked"}

NextPub ==
    \/ \E self \in PubKeyPaths, k \in Keys, c \in BOOLEAN :
          \E a \in AnswersAt(self, c) : PubWrite(self, PublicKeyOf(k), c, a)
    \/ \E self \in PubKeyPaths : PubRetrieve(self)

NextSec ==
    \/ \E self \in SecKeyPaths, k \in Keys, m \in MasterPasswds, c \in BOOLEAN,
          s \in Salts :
          \E a \in AnswersAt(self, c) :
             SecWriteEncrypted(self, PrivateKeyOf(k), m, c, a, s)
    \/ \E self \in SecKeyPaths, m \in MasterPasswds : SecRetrieve(self, m)

NextPass ==
    \/ \E n \in ServiceNames, s \in PasswdStores : FromServiceName(n, s)
    \/ \E p \in Passwds, k \in Keys : WritePasswd(p, PublicKeyOf(k))
    \/ \E a \in SecretKeyArgs : RetrievePasswd(a)
    \/ \E d \in AliasDests : Alias(d)

\* the key files alone
NextKeys == NextPub \/ NextSec

SpecKeys == Init /\ [][NextKeys]_vars

\* the password files, with the secret key file their readers draw on
NextPasswd == NextPass \/ NextSec

SpecPass == Init /\ [][NextPasswd]_vars

\* the whole program
Next == NextPub \/ NextSec \/ NextPass

Spec == Init /\ [][Next]_vars

\* from_service_name alone, over every service name of the bound
NextName == \E n \in AllServiceNames, s \in Stores : FromServiceName(n, s)

SpecName == Init /\ [][NextName]_vars

(***************************** properties **********************************)
KeyWrites == {"PublicKeyFile.write", "write_encrypted"}
KeyReads == {"PublicKeyFile.retrieve", "SecretKeyFile.retrieve"}

\* what the provider lambda: secret_key_file.retrieve(master) would return
ProviderResult(arg) ==
    SecretKeyFile_retrieve(fs, encrypted_file_bytes[arg.sec], arg.sec, arg.master)

\* C1: retrieve_passwd handed a zero-argument private-key provider fails with
\* FileNotFoundError without invoking it when the password file is missing,
\* and when the file exists invokes it once and decrypts with the key it
\* returns (or fails as the provider failed).
C1_ProviderCalledOnlyWhenFileExists ==
    (last.op = "retrieve_passwd" /\ last.arg.kind = "provider") =>
        IF ~last.existed
        THEN last.result = "FileNotFoundError" /\ last.calls = 0
        ELSE /\ last.calls = 1
             /\ LET k == ProviderResult(last.arg) IN
                IF k.result # "ok" THEN last.result = k.result
                ELSE LET r == retrieve_passwd(fs, last.self, k.value) IN
                     last.result = r.result /\ last.value = r.value

\* the final path component of a service name: what follows its last "/"
BaseName(service_name) ==
    LET segs == Split(service_name) IN segs[Len(segs)]

\* C2: for every non-empty service name and every store, the path
\* from_service_name returns has the store as its parent and the final
\* component of the service name as its stem, and no part of it is "..".
C2_ServiceNameConfinedToStore ==
    (last.op = "from_service_name" /\ last.arg # <<>> /\ last.result = "ok") =>
        /\ Parent(last.value) = last.self
        /\ Stem(last.value) = BaseName(last.arg)
        /\ WithoutSuffix(last.value) = Append(last.self, BaseName(last.arg))
        /\ \A i \in 1..Len(last.value) : last.value[i] # DotDot

\* C3: write_passwd on a path that exists fails with PasswdFileExistsErr and
\* leaves the disk as it was; no write_passwd call changes a node that
\* already exists, so a password file keeps the bytes of its first write.
C3_WritePasswdIsOneShot ==
    [][last'.op = "write_passwd" =>
          /\ Exists(fs, last'.self) =>
                (last'.result = "PasswdFileExistsErr" /\ fs' = fs)
          /\ \A q \in DOMAIN fs : q \in DOMAIN fs' /\ fs'[q] = fs[q]]_vars

C3_Witness ==
    /\ last.op = "write_passwd"
    /\ last.existed
    /\ last.result = "PasswdFileExistsErr"
    /\ Exists(fs, last.self)

\* C4: a memoized container of a SecretKeyFile is the container on disk, so
\* the next retrieve decrypts what the latest write_encrypted stored; a
\* successful write_encrypted leaves the memo cleared and its bytes on disk.
C4_MemoNeverStale ==
    /\ \A p \in SecKeyPaths :
          encrypted_file_bytes[p] # Unset =>
             /\ Exists(fs, p)
             /\ FromBytes(ReadBytes(fs, p)).result = "ok"
             /\ FromBytes(ReadBytes(fs, p)).value = encrypted_file_bytes[p]
    /\ (last.op = "write_encrypted" /\ last.result = "ok") =>
          /\ encrypted_file_bytes[last.self] = Unset
          /\ ReadBytes(fs, last.self) = last.value
          /\ GetEncryptedFileBytes(fs, encrypted_file_bytes[last.self], last.self).value
                = FromBytes(last.value).value

\* a rewrite that found the memo populated
C4_Witness ==
    /\ last.op = "write_encrypted"
    /\ last.result = "ok"
    /\ last.existed
    /\ last.arg.cached
    /\ encrypted_file_bytes[last.self] = Unset

\* a key-file write whose overwrite prompt was declined or abandoned
Declined(l) == l.op \in KeyWrites /\ l.arg.answer \in {"n", "abort"}

C6_AliasLinksExistingFile ==
    last.op = "alias" =>
        IF ~last.existed
        THEN last.result = "FileNotFoundError" /\ ~Exists(fs, last.arg)
        ELSE /\ last.result = "ok"
             /\ Exists(fs, last.arg)
             /\ fs[Resolve(fs, last.arg).at] = Symlink(last.self)

AncestorsExist(f, path) ==
    \A n \in 0..(Len(path) - 1) :
        LET a == SubSeq(path, 1, n) IN a \in DOMAIN f /\ f[a].kind = "dir"

\* C8: a key-file write that is not cancelled succeeds whatever number of
\* ancestor directories is missing, and leaves every ancestor in place and
\* the written bytes in the file.
C8_WriteCreatesAncestors ==
    (last.op \in KeyWrites /\ last.result # "SystemExit") =>
        /\ last.result = "ok"
        /\ AncestorsExist(fs, last.self)
        /\ Exists(fs, last.self)
        /\ ReadBytes(fs, last.self) = last.value

\* C9: with the secret key file holding private key k under master password
\* m and the password file holding p sealed to k's public key,
\* retrieve_passwd(lambda: secret_key_file.retrieve(m)) returns p.
C9_RoundTripThroughProvider ==
    \A k \in Keys, p \in Passwds :
        ( /\ last.op = "retrieve_passwd"
          /\ last.arg.kind = "provider"
          /\ last.existed
          /\ ReadBytes(fs, last.self) = SealedBoxEncrypt(PublicKeyOf(k), Utf8(p))
          /\ ProviderResult(last.arg).result = "ok"
          /\ ProviderResult(last.arg).value = PrivateKeyOf(k) )
        => (last.result = "ok" /\ last.value = p)

\* C10: from_service_name("", store) fails with EmptyError for every store,
\* hands the caller no PasswdFile and changes nothing on disk.
C10_EmptyServiceNameRejected ==
    [][(last'.op = "from_service_name" /\ last'.arg = <<>>) =>
          /\ last'.result = "EmptyError"
          /\ pass_file' = pass_file
          /\ fs' = fs]_vars

C10_Witness ==
    /\ last.op = "from_service_name"
    /\ last.arg = <<>>
    /\ last.result = "EmptyError"

====
